---- MODULE Spec2Model ----
(***************************************************************************)
(* Online code judge: server/routes/judge.ts (judgeSubmission) and         *)
(* server/services/codeExecutor.ts (CodeExecutor).                         *)
(*                                                                         *)
(* Each submission slot s runs one request through judgeSubmission and,    *)
(* when the request is accepted, through executeJavaScript, executePython  *)
(* or executeCpp.  Every await of the code is a point where the other      *)
(* submission, the child processes and the clock may take steps.           *)
(***************************************************************************)
EXTENDS Integers, Sequences, FiniteSets, TLC

\* ------------------------------------------------------------------ bounds
\* At most MaxClients MongoClient objects are constructed.
MaxClients == 3
\* Date.now() takes the values 0..MaxClock.
MaxClock == 1
\* A question of the catalog has 0..MaxTests test cases.
MaxTests == 2
\* User code writes at most MaxUserOut tokens to stdout before the harness line.
MaxUserOut == 3
\* The practice page starts at most MaxRuns judge runs.
MaxRuns == 2

\* The submissions that may be in progress at the same time.
Subs == {"s1", "s2"}
NoSub == "none"

\* ------------------------------------------------------------- JSON values
\* An element of a decoded array: a result object, null, or a number.
Res(i, b) == [k |-> "res", testCaseIndex |-> i, passed |-> b]
JNull == [k |-> "null", testCaseIndex |-> 0, passed |-> FALSE]
JNum == [k |-> "num", testCaseIndex |-> 0, passed |-> FALSE]

\* A JSON text: an array of elements, or a value that is no array.
JArr(items) == [k |-> "array", items |-> items]
JScalar == [k |-> "scalar", items |-> <<>>]
NoJson == [k |-> "none", items |-> <<>>]

\* ------------------------------------------------------------ stdout text
\* Captured stdout is a sequence of tokens: the text JUDGE_RESULT: ("J"), a line
\* terminator ("NL"), other non-blank text ("X"), or one complete JSON text ("P").
TokJ == [t |-> "J", v |-> NoJson]
TokNL == [t |-> "NL", v |-> NoJson]
TokX == [t |-> "X", v |-> NoJson]
TokP(v) == [t |-> "P", v |-> v]

\* The arrays user code forges: passing results, one more than any question has
\* test cases; a null entry; a number entry.
AllPass(n) == [i \in 1..n |-> Res(i - 1, TRUE)]
ForgedArrays == {AllPass(MaxTests + 1), <<JNull>>, <<JNum>>}

UserTokens == {TokJ, TokNL, TokX, TokP(JScalar)} \cup {TokP(JArr(a)) : a \in ForgedArrays}

\* --------------------------------------------------------- parseJudgeOutput
\* output.match(/JUDGE_RESULT:(.+)/): the first place where the prefix is followed
\* by at least one character of the same line; 0 when there is none.
MatchIndex(out) ==
  LET hits == {i \in 1..(Len(out) - 1) : out[i].t = "J" /\ out[i + 1].t # "NL"}
  IN IF hits = {} THEN 0 ELSE CHOOSE i \in hits : \A j \in hits : i <= j

\* The capture group (.+): everything after the prefix up to the end of that line.
Capture(out, i) ==
  LET ends == {j \in (i + 1)..Len(out) : out[j].t = "NL"}
      last == IF ends = {} THEN Len(out)
              ELSE (CHOOSE j \in ends : \A k \in ends : j <= k) - 1
  IN SubSeq(out, i + 1, last)

\* JSON.parse: the text decodes only when it is exactly one JSON text.
JSONparse(text) ==
  IF Len(text) = 1 /\ text[1].t = "P" THEN text[1].v ELSE NoJson

\* results.filter(r => r.passed).length
CountPassed(items) == Cardinality({i \in DOMAIN items : items[i].passed})

NoError == "undefined"

\* The catch block of parseJudgeOutput with overallError left out.
ParseFailureNoError(n, why) ==
  [success |-> FALSE, totalTests |-> n, passedTests |-> 0, results |-> <<>>,
   overallError |-> NoError]

\* The catch block of parseJudgeOutput.
ParseFailure(n, why) ==
  [success |-> FALSE, totalTests |-> n, passedTests |-> 0, results |-> <<>>,
   overallError |-> why]

parseJudgeOutput(output, n) ==
  LET i == MatchIndex(output)
      v == JSONparse(Capture(output, i))
  IN IF i = 0
       THEN ParseFailure(n, "Failed to parse results: Error: No judge result found in output")
     ELSE IF v.k = "none"
       THEN ParseFailure(n, "Failed to parse results: SyntaxError")
     ELSE IF v.k = "scalar" \/ \E j \in DOMAIN v.items : v.items[j].k = "null"
       THEN ParseFailure(n, "Failed to parse results: TypeError")
     ELSE [success |-> TRUE, totalTests |-> n,
           passedTests |-> CountPassed(v.items), results |-> v.items,
           overallError |-> NoError]

\* The catch block of executeJavaScript, executePython and executeCpp.
ExecutionError(n, why) ==
  [success |-> FALSE, totalTests |-> n, passedTests |-> 0, results |-> <<>>,
   overallError |-> why]

NoResult ==
  [success |-> FALSE, totalTests |-> 0, passedTests |-> 0, results |-> <<>>,
   overallError |-> "pending"]

\* ------------------------------------------------------------ user programs
\* What the submitted code does when its artifact is run:
\*   pre     what it writes to stdout before the harness writes its line
\*   end     "harness": the harness writes its line and the process exits 0
\*           "exit0": the code exits 0 before the harness writes its line
\*           "crash": the process exits non-zero
\*           "hangBefore", "hangAfter": the process is still running when the
\*             timeout fires, before or after the harness wrote its line
\*   onTerm  what the process does on the SIGTERM of the timeout
\*   pass    which test cases the user's function answers as expected
\*   compile what g++ does with the code (C++ only)
\*   stderr  what it has written to stderr when it exits non-zero
UserOutputs == UNION {[1..n -> UserTokens] : n \in 0..MaxUserOut}
ForgedLine == <<TokJ, TokP(JArr(AllPass(MaxTests + 1))), TokNL>>
PlainOutputs == {<<>>, ForgedLine}

Ends == {"harness", "exit0", "crash", "hangBefore", "hangAfter"}
Hangs == {"hangBefore", "hangAfter"}
TermReactions == {"die", "ignore", "exit0"}
PassPolicies == {"all", "first", "none"}
CompileOutcomes == {"ok", "error", "slow"}
\* A stack trace or the like; or, written by the code itself, the text of the
\* error with which spawn fails.
StderrTexts == {"stderr", "spawn ENOENT"}

\* reject(new Error(errorOutput || ...)), then `Execution error: ${error}`
CrashError(text) ==
  IF text = "spawn ENOENT" THEN "Execution error: Error: spawn ENOENT"
  ELSE "Execution error: Error: stderr"

\* The programs tried.  A field that cannot influence the run has one value: the
\* reaction to SIGTERM of a program that exits on its own, the verdicts of a
\* harness that never writes its line, everything but the diagnostics of code
\* g++ rejects.  Output other than PlainOutputs is tried with programs that
\* exit 0 on their own, the harness passing the first test case only.
ProgramsOver(outs) ==
  {p \in [pre : outs, end : Ends, onTerm : TermReactions, pass : PassPolicies,
          compile : CompileOutcomes, stderr : StderrTexts] :
     /\ p.end \notin Hangs => p.onTerm = "die"
     /\ p.end # "crash" => p.stderr = "stderr"
     /\ p.end \notin {"harness", "hangAfter"} => p.pass = "all"
     /\ p.compile # "ok" => (p.pre = <<>> /\ p.end = "harness" /\ p.pass = "all")
     /\ p.pre \notin PlainOutputs =>
          (p.end \in {"harness", "exit0"} /\ (p.end = "harness" => p.pass = "first"))}

Programs == ProgramsOver(UserOutputs)

\* The programs tried two at a time: they write nothing of their own to stdout,
\* and one that crashes writes the text of a spawn error to stderr.
ConcPrograms ==
  {p \in ProgramsOver({<<>>}) :
     /\ p.pass # "first" /\ p.end # "hangAfter" /\ p.onTerm = "die" /\ p.compile # "slow"
     /\ p.end = "crash" => p.stderr = "spawn ENOENT"}

NoProgram ==
  [pre |-> <<>>, end |-> "harness", onTerm |-> "die", pass |-> "all", compile |-> "ok",
   stderr |-> "stderr"]

\* The verdict the harness computes for test case i (0-based).
Passes(policy, i) ==
  CASE policy = "all" -> TRUE
    [] policy = "first" -> i = 0
    [] OTHER -> FALSE

\* The results array a harness builds: one entry per test case of the artifact,
\* in order, testCaseIndex: index.
HarnessResults(prog, n) == [i \in 1..n |-> Res(i - 1, Passes(prog.pass, i - 1))]

\* console.log('JUDGE_RESULT:' + JSON.stringify(results))
HarnessLine(prog, n) == <<TokJ, TokP(JArr(HarnessResults(prog, n))), TokNL>>

\* What the process has written to stdout when it closes.
Stdout(prog, n) ==
  prog.pre \o (IF prog.end \in {"harness", "hangAfter"} THEN HarnessLine(prog, n) ELSE <<>>)

\* ------------------------------------------------------------------- state
Langs == {"javascript", "python", "cpp"}
Exts == {"js", "py", "cpp", "exe"}
Paths == [ext : Exts, ts : 0..MaxClock]
NoPath == [ext |-> "none", ts |-> 0]
NoFile == [by |-> NoSub, of |-> NoSub]

VARIABLES
  clock,   \* Date.now(), in milliseconds
  fs,      \* the temp directory: path -> [by: the invocation that created the file,
           \*   of: the submission whose wrapped code it holds]; NoFile when absent
  pc,      \* where each submission's request is
  req,     \* the request body and what the question catalog holds for it
  code,    \* executor argument: the user program
  tests,   \* executor argument: testCases.length
  paths,   \* filePath and executablePath of the invocation
  proc,    \* the child process the runner spawned
  out,     \* stdout captured by the runner
  ret,     \* the JudgeResult the executor returned
  resp,    \* the HTTP response sent
  hist,    \* history: whose artifact was run, which failures happened
  harness, \* one run of a generated artifact, test case by test case
  page,    \* the state of the CodingPractice component and its requests in flight
  mongo    \* database.ts: client, db, the MongoClients made and the calls in progress

vars ==
  <<clock, fs, pc, req, code, tests, paths, proc, out, ret, resp, hist, harness, page,
    mongo>>

NoProc == [stage |-> "none", alive |-> FALSE, child |-> FALSE, owner |-> NoSub,
           timedOut |-> FALSE, exit |-> "none"]
NoRequest == [fields |-> TRUE, question |-> "found", nTests |-> 0, language |-> "none"]
NoResponse == [http |-> 0, status |-> "none", accuracy |-> 0, totalTests |-> 0,
               passedTests |-> 0, success |-> FALSE, error |-> NoError]
\* No artifact is followed test case by test case.
NoHarness ==
  [lang |-> "none", defs |-> {}, policy |-> "none", tests |-> <<>>, i |-> 0,
   results |-> <<>>, shapes |-> <<>>, calls |-> <<>>, phase |-> "off",
   exit |-> "none",
   ret |-> NoResult]

NoHist == [ran |-> NoSub, fails |-> {}, env |-> FALSE, spawns |-> 0, calls |-> 0]

\* The callers of connectToDatabase and closeDatabaseConnection.
Callers == {"a", "b"}

\* let client: MongoClient | null = null; MongoClients are numbered from 1 in
\* the order of their construction.
NoClient == 0

\* let db: Db | null = null; a Db is the serial-th one made, by client.db().
NoDb == [client |-> NoClient, serial |-> 0]

NoCall == [pc |-> "idle", awaits |-> NoClient, got |-> NoDb, ret |-> "none"]

\* The module as it is loaded.
NoMongo ==
  [client |-> NoClient, db |-> NoDb,
   clients |-> [c \in 1..MaxClients |-> "none"],
   dbs |-> 0, closes |-> 0,
   call |-> [p \in Callers |-> NoCall]]

\* useState<CodingQuestion | null>(null)
NoQuestion == "null"

\* setTestResults({}): no test case has a status.
NoStatuses == [i \in {} |-> "pending"]

\* The component as it is mounted: the question list, language 'javascript',
\* no statuses, nothing in flight.
NoPage ==
  [selected |-> NoQuestion, language |-> "javascript", testResults |-> NoStatuses,
   from |-> NoQuestion, flights |-> {}, runs |-> 0, last |-> "mounted"]

\* No request has arrived.
JudgeInit ==
  /\ clock = 0
  /\ fs = [p \in Paths |-> NoFile]
  /\ pc = [s \in Subs |-> "idle"]
  /\ req = [s \in Subs |-> NoRequest]
  /\ code = [s \in Subs |-> NoProgram]
  /\ tests = [s \in Subs |-> 0]
  /\ paths = [s \in Subs |-> [src |-> NoPath, exe |-> NoPath]]
  /\ proc = [s \in Subs |-> NoProc]
  /\ out = [s \in Subs |-> <<>>]
  /\ ret = [s \in Subs |-> NoResult]
  /\ resp = [s \in Subs |-> NoResponse]
  /\ hist = [s \in Subs |-> NoHist]

Init == JudgeInit /\ harness = NoHarness /\ page = NoPage /\ mongo = NoMongo

\* ------------------------------------------------------------ judgeSubmission
ReqLanguages == Langs \cup {"java", "other"}
Requests ==
  [fields : BOOLEAN, question : {"found", "missing", "throws"},
   nTests : 0..MaxTests, language : ReqLanguages]

\* The requests tried two at a time: complete, in a language that has an
\* executor, for a question of the catalog with no, one or the most test cases.
ConcRequests ==
  {r \in Requests :
     /\ r.fields /\ r.question = "found" /\ r.language \in Langs
     /\ r.nTests \in {0, 1, MaxTests}}

ErrorResponse(code_) ==
  [http |-> code_, status |-> "none", accuracy |-> 0, totalTests |-> 0,
   passedTests |-> 0, success |-> FALSE, error |-> "error"]

\* The checks of judgeSubmission without the one for an empty test-case list.
ValidateNoTestGuard(r) ==
  IF ~r.fields THEN 400
  ELSE IF r.question = "throws" THEN 500
  ELSE IF r.question = "missing" THEN 404
  ELSE IF r.language = "java" THEN 501
  ELSE IF r.language \notin Langs THEN 400
  ELSE 0

\* The checks of judgeSubmission without a switch on the language.
ValidateAnyLanguage(r) ==
  IF ~r.fields THEN 400
  ELSE IF r.question = "throws" THEN 500
  ELSE IF r.question = "missing" THEN 404
  ELSE IF r.nTests = 0 THEN 400
  ELSE 0

\* The checks of judgeSubmission with case 'java' falling into the default case.
ValidateJavaAsUnknown(r) ==
  IF ~r.fields THEN 400
  ELSE IF r.question = "throws" THEN 500
  ELSE IF r.question = "missing" THEN 404
  ELSE IF r.nTests = 0 THEN 400
  ELSE IF r.language \notin Langs THEN 400
  ELSE 0

\* The checks of judgeSubmission before it calls the executor: the HTTP status it
\* answers with, or 0 when the request goes on to the executor.
Validate(r) ==
  IF ~r.fields THEN 400
  ELSE IF r.question = "throws" THEN 500
  ELSE IF r.question = "missing" THEN 404
  ELSE IF r.nTests = 0 THEN 400
  ELSE IF r.language = "java" THEN 501
  ELSE IF r.language \notin Langs THEN 400
  ELSE 0

\* Math.round((passedTests / totalTests) * 100); 0 / 0 is NaN.
NaN == -1
Accuracy(passed, total) ==
  IF total = 0 THEN NaN ELSE (200 * passed + total) \div (2 * total)

\* const status = judgeResult.passedTests === judgeResult.totalTests ? ...
Status(j) == IF j.passedTests = j.totalTests THEN "Accepted" ELSE "Wrong Answer"

JudgeResponse(j) ==
  [http |-> 200, status |-> Status(j),
   accuracy |-> Accuracy(j.passedTests, j.totalTests),
   totalTests |-> j.totalTests, passedTests |-> j.passedTests,
   success |-> j.success, error |-> j.overallError]

\* A request arrives: judgeSubmission validates it, looks the question up and
\* either answers with an error or calls the executor for the language.
Receive(s, reqs, progs) ==
  /\ pc[s] = "idle"
  /\ \E r \in reqs :
       /\ req' = [req EXCEPT ![s] = r]
       /\ IF Validate(r) # 0
            THEN /\ resp' = [resp EXCEPT ![s] = ErrorResponse(Validate(r))]
                 /\ pc' = [pc EXCEPT ![s] = "responded"]
                 /\ UNCHANGED <<code, tests, hist>>
            ELSE /\ \E p \in progs :
                      /\ r.language # "cpp" => p.compile = "ok"
                      /\ code' = [code EXCEPT ![s] = p]
                 /\ tests' = [tests EXCEPT ![s] = r.nTests]
                 /\ hist' = [hist EXCEPT ![s].calls = @ + 1]
                 /\ pc' = [pc EXCEPT ![s] = "ensureTempDir"]
                 /\ UNCHANGED resp
  /\ UNCHANGED <<mongo, page, harness, clock, fs, paths, proc, out, ret>>

\* The executor returned (or rejected): the response is computed and sent.
Respond(s) ==
  /\ pc[s] \in {"returned", "rejected"}
  /\ resp' = [resp EXCEPT ![s] =
                IF pc[s] = "rejected" THEN ErrorResponse(500) ELSE JudgeResponse(ret[s])]
  /\ pc' = [pc EXCEPT ![s] = "responded"]
  /\ UNCHANGED <<mongo, page, harness, clock, fs, req, code, tests, paths, proc, out, ret, hist>>

\* CodingPractice.runTestCases: what the page shows for a response.  A response
\* that is not ok is thrown and caught; otherwise the alert depends on
\* result.status alone and carries the two counts.
ClientAlert(r) ==
  IF r.http # 200
    THEN [text |-> "Error running tests. Please try again.", passed |-> 0, total |-> 0]
  ELSE IF r.status = "Accepted"
    THEN [text |-> "All tests passed", passed |-> r.passedTests, total |-> r.totalTests]
  ELSE [text |-> "tests passed", passed |-> r.passedTests, total |-> r.totalTests]

\* ------------------------------------------------------------- CodeExecutor
Ext(lang) ==
  CASE lang = "javascript" -> "js"
    [] lang = "python" -> "py"
    [] OTHER -> "cpp"

IsCpp(s) == req[s].language = "cpp"

\* The catch block: the invocation returns a failed JudgeResult.
Fail(s, class, why, env) ==
  /\ ret' = [ret EXCEPT ![s] = ExecutionError(tests[s], why)]
  /\ pc' = [pc EXCEPT ![s] = "returned"]
  /\ hist' = [hist EXCEPT ![s].fails = @ \cup {class}, ![s].env = @ \/ env]

\* ensureTempDir: mkdir, its error swallowed.
AfterMkdir(ok) == "naming"

ensureTempDir(s) ==
  /\ pc[s] = "ensureTempDir"
  /\ \E ok \in BOOLEAN : pc' = [pc EXCEPT ![s] = AfterMkdir(ok)]
  /\ UNCHANGED <<mongo, page, harness, clock, fs, req, code, tests, paths, proc, out, ret, resp, hist>>

\* `solution_${Date.now()}.<ext>`; executeCpp reads the clock a second time for
\* the executable, and the clock may have advanced in between.
SourcePath(lang, now) == [ext |-> Ext(lang), ts |-> now]
ExecutablePath(now) == [ext |-> "exe", ts |-> now]

NamePaths(s) ==
  /\ pc[s] = "naming"
  /\ \E t2 \in {clock, clock + 1} :
       /\ t2 <= MaxClock
       /\ IsCpp(s) \/ t2 = clock
       /\ clock' = t2
       /\ paths' = [paths EXCEPT ![s] =
            [src |-> SourcePath(req[s].language, clock),
             exe |-> IF IsCpp(s) THEN ExecutablePath(t2) ELSE NoPath]]
  /\ pc' = [pc EXCEPT ![s] = "writing"]
  /\ UNCHANGED <<mongo, page, harness, fs, req, code, tests, proc, out, ret, resp, hist>>

\* writeFile(filePath, wrappedCode) without the await: the executor goes on
\* before the file is there.
WriteFileNotAwaited(s) ==
  /\ pc[s] = "writing"
  /\ pc' = [pc EXCEPT ![s] = IF IsCpp(s) THEN "compileSpawn" ELSE "runSpawn"]
  /\ UNCHANGED <<mongo, page, harness, clock, fs, req, code, tests, paths, proc, out, ret, resp, hist>>

\* await writeFile(filePath, wrappedCode)
WriteFile(s) ==
  /\ pc[s] = "writing"
  /\ \E ok \in BOOLEAN :
       IF ok
         THEN /\ fs' = [fs EXCEPT ![paths[s].src] = [by |-> s, of |-> s]]
              /\ pc' = [pc EXCEPT ![s] = IF IsCpp(s) THEN "compileSpawn" ELSE "runSpawn"]
              /\ UNCHANGED <<ret, hist>>
         ELSE /\ Fail(s, "write", "Execution error: write failed", TRUE)
              /\ UNCHANGED fs
  /\ UNCHANGED <<mongo, page, harness, clock, req, code, tests, paths, proc, out, resp>>

\* compileCppCode: g++ is spawned and reads the source file.
CompileStart(s) ==
  /\ pc[s] = "compileSpawn"
  /\ \E ok \in BOOLEAN :
       IF ok
         THEN /\ proc' = [proc EXCEPT ![s] =
                   [NoProc EXCEPT !.stage = "compile", !.alive = TRUE,
                                  !.owner = fs[paths[s].src].of]]
              /\ pc' = [pc EXCEPT ![s] = "compiling"]
              /\ UNCHANGED <<ret, hist>>
         ELSE /\ Fail(s, "spawn", "Execution error: Error: Compilation error: spawn g++", TRUE)
              /\ UNCHANGED proc
  /\ UNCHANGED <<mongo, page, harness, clock, fs, req, code, tests, paths, out, resp>>

\* A close handler that resolves whatever the exit code of g++ is.
CompileResultAlwaysOk(owner) == "ok"

\* What the close event of g++ reports for the source it read.
CompileResult(owner) ==
  IF owner = NoSub THEN "error" ELSE code[owner].compile

\* compileCppCode: g++ closes (on its own, or killed by the 15 s timeout).
CompileClose(s) ==
  /\ pc[s] = "compiling"
  /\ LET o == proc[s].owner
         r == CompileResult(o)
     IN /\ proc' = [proc EXCEPT ![s].alive = FALSE, ![s].timedOut = (r = "slow"),
                                  ![s].exit = CASE r = "ok" -> "zero"
                                                [] r = "slow" -> "null"
                                                [] OTHER -> "nonzero"]
        /\ IF r = "ok"
             THEN /\ fs' = [fs EXCEPT ![paths[s].exe] = [by |-> s, of |-> o]]
                  /\ pc' = [pc EXCEPT ![s] = "runSpawn"]
                  /\ UNCHANGED <<ret, hist>>
           ELSE IF r = "slow"
             THEN /\ Fail(s, "timeout",
                          "Execution error: Error: Compilation failed: Process exited with code null", FALSE)
                  /\ UNCHANGED fs
             ELSE /\ Fail(s, "compile", "Execution error: Error: Compilation failed: diagnostics",
                          FALSE)
                  /\ UNCHANGED fs
  /\ UNCHANGED <<mongo, page, harness, clock, req, code, tests, paths, out, resp>>

\* The path handed to the runner: the source for node and python, the executable
\* for C++.
RunPath(s) == IF IsCpp(s) THEN paths[s].exe ELSE paths[s].src

\* runNodeProcess, runPythonProcess, runCppProcess: spawn.  The 'error' event
\* rejects; an interpreter that finds no file at the path exits non-zero; a
\* missing executable cannot be launched.  Otherwise the process runs the
\* artifact that is at the path now.
RunStart(s) ==
  /\ pc[s] = "runSpawn"
  /\ \E ok \in BOOLEAN :
       LET o == fs[RunPath(s)].of
       IN IF ~ok
            THEN /\ Fail(s, "spawn", "Execution error: Error: spawn ENOENT", TRUE)
                 /\ UNCHANGED proc
          ELSE IF o = NoSub
            THEN /\ IF IsCpp(s)
                      THEN Fail(s, "spawn", "Execution error: Error: spawn ENOENT", FALSE)
                      ELSE Fail(s, "exit", "Execution error: Error: stderr", FALSE)
                 /\ UNCHANGED proc
            ELSE /\ proc' = [proc EXCEPT ![s] =
                      [NoProc EXCEPT !.stage = "run", !.alive = TRUE, !.owner = o]]
                 /\ hist' = [hist EXCEPT ![s].ran = o, ![s].spawns = @ + 1]
                 /\ pc' = [pc EXCEPT ![s] = "running"]
                 /\ UNCHANGED ret
  /\ UNCHANGED <<mongo, page, harness, clock, fs, req, code, tests, paths, out, resp>>

\* The program the process of s is running, and the test cases embedded in it.
Running(s) == code[proc[s].owner]

\* process.on('close', code => code === 0 ? resolve(output) : reject(...))
\* for a process that exits on its own within the timeout.
ProcClose(s) ==
  /\ pc[s] = "running"
  /\ proc[s].alive /\ ~proc[s].timedOut
  /\ Running(s).end \notin Hangs
  /\ proc' = [proc EXCEPT ![s].alive = FALSE,
                           ![s].exit = IF Running(s).end = "crash" THEN "nonzero"
                                       ELSE "zero"]
  /\ IF Running(s).end = "crash"
       THEN /\ Fail(s, "exit", CrashError(Running(s).stderr), FALSE)
            /\ UNCHANGED out
       ELSE /\ out' = [out EXCEPT ![s] = Stdout(Running(s), tests[proc[s].owner])]
            /\ pc' = [pc EXCEPT ![s] = "unlinkSrc"]
            /\ UNCHANGED <<ret, hist>>
  /\ UNCHANGED <<mongo, page, harness, clock, fs, req, code, tests, paths, resp>>

\* spawn(..., {timeout: 10000}): after 10 s the child is sent SIGTERM, once.
\* It dies of it (close with code null), handles it and exits 0 (close with code
\* 0), or ignores it (no close event ever).  The signal goes to the spawned
\* process alone: a detached child it started by then keeps running.
KilledBy(reaction) == reaction # "ignore"

Timeout(s) ==
  /\ pc[s] = "running"
  /\ proc[s].alive /\ ~proc[s].timedOut
  /\ Running(s).end \in Hangs
  /\ \E child \in BOOLEAN :
       proc' = [proc EXCEPT ![s].timedOut = TRUE,
                            ![s].alive = ~KilledBy(Running(s).onTerm),
                            ![s].child = child,
                            ![s].exit = CASE Running(s).onTerm = "die" -> "null"
                                          [] Running(s).onTerm = "exit0" -> "zero"
                                          [] OTHER -> "none"]
  /\ CASE Running(s).onTerm = "die" ->
            /\ Fail(s, "timeout", "Execution error: Error: Process exited with code null",
                    FALSE)
            /\ UNCHANGED out
       [] Running(s).onTerm = "exit0" ->
            /\ out' = [out EXCEPT ![s] = Stdout(Running(s), tests[proc[s].owner])]
            /\ pc' = [pc EXCEPT ![s] = "unlinkSrc"]
            /\ hist' = [hist EXCEPT ![s].fails = @ \cup {"timeout"}]
            /\ UNCHANGED ret
       [] OTHER ->
            /\ hist' = [hist EXCEPT ![s].fails = @ \cup {"timeout"}]
            /\ UNCHANGED <<pc, out, ret>>
  /\ UNCHANGED <<mongo, page, harness, clock, fs, req, code, tests, paths, resp>>

\* unlink(filePath) with its failure swallowed, as the executable's is.
UnlinkSourceIgnored(s) ==
  /\ pc[s] = "unlinkSrc"
  /\ \E ok \in BOOLEAN :
       LET removed == ok /\ fs[paths[s].src] # NoFile
       IN /\ fs' = IF removed THEN [fs EXCEPT ![paths[s].src] = NoFile] ELSE fs
          /\ IF IsCpp(s)
               THEN /\ pc' = [pc EXCEPT ![s] = "unlinkExe"]
                    /\ hist' = [hist EXCEPT ![s].fails =
                                  @ \cup (IF removed THEN {} ELSE {"unlink"})]
                    /\ UNCHANGED ret
               ELSE /\ ret' = [ret EXCEPT ![s] = parseJudgeOutput(out[s], tests[s])]
                    /\ pc' = [pc EXCEPT ![s] = "returned"]
                    /\ hist' = [hist EXCEPT ![s].fails =
                                  @ \cup (IF removed THEN {} ELSE {"unlink"})
                                    \cup (IF ret'[s].success THEN {} ELSE {"parse"})]
  /\ UNCHANGED <<mongo, page, harness, clock, req, code, tests, paths, proc, out, resp>>

\* await unlink(filePath); for node and python parseJudgeOutput follows at once.
UnlinkSource(s) ==
  /\ pc[s] = "unlinkSrc"
  /\ \E ok \in BOOLEAN :
       IF ok /\ fs[paths[s].src] # NoFile
         THEN /\ fs' = [fs EXCEPT ![paths[s].src] = NoFile]
              /\ IF IsCpp(s)
                   THEN /\ pc' = [pc EXCEPT ![s] = "unlinkExe"]
                        /\ UNCHANGED <<ret, hist>>
                   ELSE /\ ret' = [ret EXCEPT ![s] = parseJudgeOutput(out[s], tests[s])]
                        /\ pc' = [pc EXCEPT ![s] = "returned"]
                        /\ hist' = [hist EXCEPT ![s].fails =
                                      @ \cup (IF ret'[s].success THEN {} ELSE {"parse"})]
         ELSE /\ Fail(s, "unlink", "Execution error: Error: unlink", ~ok)
              /\ UNCHANGED fs
  /\ UNCHANGED <<mongo, page, harness, clock, req, code, tests, paths, proc, out, resp>>

\* try { await unlink(executablePath) } catch (e) { /* ignore */ }, then
\* parseJudgeOutput.
UnlinkExe(s) ==
  /\ pc[s] = "unlinkExe"
  /\ \E ok \in BOOLEAN :
       LET removed == ok /\ fs[paths[s].exe] # NoFile
       IN /\ fs' = IF removed THEN [fs EXCEPT ![paths[s].exe] = NoFile] ELSE fs
          /\ ret' = [ret EXCEPT ![s] = parseJudgeOutput(out[s], tests[s])]
          /\ hist' = [hist EXCEPT ![s].fails =
                        @ \cup (IF removed THEN {} ELSE {"unlinkExe"})
                          \cup (IF ret'[s].success THEN {} ELSE {"parse"})]
  /\ pc' = [pc EXCEPT ![s] = "returned"]
  /\ UNCHANGED <<mongo, page, harness, clock, req, code, tests, paths, proc, out, resp>>

\* Date.now() advances.
Tick ==
  /\ clock < MaxClock
  /\ clock' = clock + 1
  /\ UNCHANGED <<mongo, page, harness, fs, pc, req, code, tests, paths, proc, out, ret, resp, hist>>

\* ---------------------------------------------------------- specifications
Step(s, reqs, progs) ==
  \/ Receive(s, reqs, progs)
  \/ ensureTempDir(s)
  \/ NamePaths(s)
  \/ WriteFile(s)
  \/ CompileStart(s)
  \/ CompileClose(s)
  \/ RunStart(s)
  \/ ProcClose(s)
  \/ Timeout(s)
  \/ UnlinkSource(s)
  \/ UnlinkExe(s)
  \/ Respond(s)

\* Two submissions in progress at the same time.
Next == Tick \/ \E s \in Subs : Step(s, ConcRequests, ConcPrograms)

Spec == Init /\ [][Next]_vars

\* One submission whose code writes anything to stdout.
SoloNext == Tick \/ Step("s1", Requests, Programs)

SoloSpec == Init /\ [][SoloNext]_vars

\* One submission whose code writes nothing, or a forged result line, to stdout.
\* The event loop runs every callback that is ready, child processes run, and
\* the timeout timer fires: a step of the submission that stays possible is taken.
PlainStep == Step("s1", Requests, ProgramsOver(PlainOutputs))

FairNext == Tick \/ PlainStep

FairSpec == Init /\ [][FairNext]_vars /\ WF_vars(PlainStep)

\* ------------------------------------------------------- test-case strings
\* The input of a test case is a string, modelled as a sequence of characters:
\* brackets, comma, double quote, an integer literal ("9") and any other run of
\* text ("x").  White space, which trim(), strip() and stoi skip, is left out.
LBr == "["
RBr == "]"
Comma == ","
Quote == "\""
Num == "9"
Text == "x"

\* input.includes(c), c in input_str, input.find(c) != string::npos
Includes(str, c) == \E i \in DOMAIN str : str[i] = c

\* First position of c at or after from (1-based); 0 when there is none.
IndexFrom(str, c, from) ==
  LET hits == {i \in DOMAIN str : i >= from /\ str[i] = c}
  IN IF hits = {} THEN 0 ELSE CHOOSE i \in hits : \A j \in hits : i <= j

IndexOf(str, c) == IndexFrom(str, c, 1)

\* input.split(','), input_str.split(',')
RECURSIVE Split(_, _)
Split(str, c) ==
  IF ~Includes(str, c) THEN <<str>>
  ELSE LET i == IndexOf(str, c)
       IN <<SubSeq(str, 1, i - 1)>> \o Split(SubSeq(str, i + 1, Len(str)), c)

\* parts[parts.length - 1], parts[-1]
LastPart(str) == LET parts == Split(str, Comma) IN parts[Len(parts)]

\* while (getline(ss, item, ',')): the parts, without an empty last one.
GetlineItems(str) ==
  LET parts == Split(str, Comma)
  IN IF parts[Len(parts)] = <<>> THEN SubSeq(parts, 1, Len(parts) - 1) ELSE parts

\* parseInt(s) is a number, and stoi(s) does not throw, when s starts with an
\* integer literal; int(s) does not raise when s is an integer literal.
IntPrefix(str) == Len(str) >= 1 /\ str[1] = Num
IsInt(str) == str = <<Num>>

\* JSON.parse / json.loads accept the text: a list of integers, an integer, or
\* a string.
IsIntList(str) ==
  /\ Len(str) >= 2 /\ str[1] = LBr /\ str[Len(str)] = RBr
  /\ LET inner == SubSeq(str, 2, Len(str) - 1)
     IN \/ inner = <<>>
        \/ /\ Len(inner) % 2 = 1
           /\ \A i \in DOMAIN inner : inner[i] = (IF i % 2 = 1 THEN Num ELSE Comma)
IsJson(str) ==
  \/ IsIntList(str)
  \/ IsInt(str)
  \/ Len(str) >= 2 /\ str[1] = Quote /\ str[Len(str)] = Quote
       /\ \A i \in 2..(Len(str) - 1) : str[i] # Quote

\* input.substring(input.indexOf('['), input.indexOf(']') + 1): substring swaps
\* its arguments when the second is smaller.
JsArrayPart(str) ==
  LET a == IndexOf(str, LBr) - 1
      b == IndexOf(str, RBr)
      lo == IF a < b THEN a ELSE b
      hi == IF a < b THEN b ELSE a
  IN SubSeq(str, lo + 1, hi)

\* input_str[input_str.index('['):input_str.index(']') + 1]; index raises when
\* there is no ']', handled by the caller.
PyArrayPart(str) == SubSeq(str, IndexOf(str, LBr), IndexOf(str, RBr))

\* input.substr(start_bracket + 1, end_bracket - start_bracket - 1): the length
\* is unsigned, so without a ']' after the '[' it reaches the end of the string.
CppArrayStr(str) ==
  LET p == IndexOf(str, LBr)
      q == IndexOf(str, RBr)
  IN IF q > p THEN SubSeq(str, p + 1, q - 1) ELSE SubSeq(str, p + 1, Len(str))

\* /"([^"]*)"/ and input.find('"', start_quote + 1): there is a second quote.
HasQuotedText(str) ==
  IndexOf(str, Quote) # 0 /\ IndexFrom(str, Quote, IndexOf(str, Quote) + 1) # 0

\* ------------------------------------------------------------ the harnesses
\* The entry points the harnesses look for (two_sum, max_sub_array, is_valid and
\* climb_stairs in Python).
EntryPoints == {"twoSum", "maxSubArray", "isValid", "climbStairs"}

\* The same three-way test on the input in wrapJavaScriptCode, wrapPythonCode
\* and wrapCppCode.
Shape(str) ==
  IF Includes(str, LBr) /\ Includes(str, Comma) THEN "array"
  ELSE IF Includes(str, Quote) THEN "string"
  ELSE "number"

NotFound == "ERROR: Function not found or not implemented"
ErrorMessage == "ERROR: message"
CppRuntimeError == "ERROR: Runtime error"
\* Python's None, which is no string.
PyNone == "(None)"

\* What a call of the user's function does: it returns a value, printed as "v1"
\* or "v2", or it throws.  "throwError" throws an Error, an Exception, a
\* std::exception; "throwOther" throws something else: a value without a
\* message (throw null), an exception outside Exception (SystemExit), a value
\* that is no std::exception (throw 1).
Behaviours == {"v1", "v2", "throwError", "throwOther"}
Throws == {"throwError", "throwOther"}

\* One entry of the results array.
Entry(i, passed, actual, expected) ==
  [k |-> "res", testCaseIndex |-> i, passed |-> passed,
   actualOutput |-> actual, expectedOutput |-> expected]

\* ---- JavaScript
\* if (input.includes('[') && input.includes(',')) ... else if
\* (input.includes('"')) ... else ...
JsShape(str) ==
  IF Includes(str, LBr) /\ Includes(str, Comma) THEN "array"
  ELSE IF Includes(str, Quote) THEN "string"
  ELSE "number"

\* JSON.parse(arrayPart) or input.match(...)[1] throws.
JsParseThrows(str) ==
  CASE JsShape(str) = "array" -> ~IsJson(JsArrayPart(str))
    [] JsShape(str) = "string" -> ~HasQuotedText(str)
    [] OTHER -> FALSE

\* The function the typeof tests select; "none" when there is none.
JsCallee(str, defs) ==
  CASE JsShape(str) = "array" ->
         IF "twoSum" \in defs THEN "twoSum"
         ELSE IF "maxSubArray" \in defs THEN "maxSubArray" ELSE "none"
    [] JsShape(str) = "string" -> IF "isValid" \in defs THEN "isValid" ELSE "none"
    [] OTHER -> IF "climbStairs" \in defs THEN "climbStairs" ELSE "none"

\* The callback of testCases.forEach for test case i.  A thrown value without a
\* message makes the inner catch throw a TypeError, which the outer catch
\* reports.
JsTest(i, tc, defs, b) ==
  LET actual ==
        IF JsParseThrows(tc.input) THEN ErrorMessage
        ELSE IF JsCallee(tc.input, defs) = "none" THEN NotFound
        ELSE IF b \in Throws THEN ErrorMessage
        ELSE b
      outer == ~JsParseThrows(tc.input) /\ JsCallee(tc.input, defs) # "none"
                 /\ b = "throwOther"
  IN [abort |-> FALSE, shape |-> JsShape(tc.input),
      called |-> IF JsParseThrows(tc.input) THEN "none" ELSE JsCallee(tc.input, defs),
      entry |-> Entry(i, ~outer /\ actual = tc.expectedOutput, actual,
                      tc.expectedOutput)]

\* ---- Python
\* The elif chain with the quote tested before the bracket and the comma.
PyShapeQuoteFirst(str) ==
  IF Includes(str, Quote) THEN "string"
  ELSE IF Includes(str, LBr) /\ Includes(str, Comma) THEN "array"
  ELSE "number"

\* if '[' in input_str and ',' in input_str: ... elif '"' in input_str: ...
\* else: ...
PyShape(str) ==
  IF Includes(str, LBr) /\ Includes(str, Comma) THEN "array"
  ELSE IF Includes(str, Quote) THEN "string"
  ELSE "number"

\* index(']'), json.loads(array_part), int(parts[-1].strip()) or int(input_str)
\* raises.
PyParseThrows(str) ==
  CASE PyShape(str) = "array" ->
         \/ IndexOf(str, RBr) = 0
         \/ ~IsJson(PyArrayPart(str))
         \/ ~IsInt(LastPart(str))
    [] PyShape(str) = "string" -> FALSE
    [] OTHER -> ~IsInt(str)

\* The function the globals() tests select.
PyCallee(str, defs) ==
  CASE PyShape(str) = "array" ->
         IF "twoSum" \in defs THEN "twoSum"
         ELSE IF "maxSubArray" \in defs THEN "maxSubArray" ELSE "none"
    [] PyShape(str) = "string" ->
         IF HasQuotedText(str) /\ "isValid" \in defs THEN "isValid" ELSE "none"
    [] OTHER -> IF "climbStairs" \in defs THEN "climbStairs" ELSE "none"

\* The body of the for loop for test case i.  except Exception does not catch an
\* exception outside Exception: it ends the process.
PyTest(i, tc, defs, b) ==
  LET actual ==
        IF PyParseThrows(tc.input) THEN ErrorMessage
        ELSE IF PyCallee(tc.input, defs) = "none" THEN PyNone
        ELSE IF b \in Throws THEN ErrorMessage
        ELSE b
      escapes == ~PyParseThrows(tc.input) /\ PyCallee(tc.input, defs) # "none"
                   /\ b = "throwOther"
  IN [abort |-> escapes, shape |-> PyShape(tc.input),
      called |-> IF PyParseThrows(tc.input) THEN "none" ELSE PyCallee(tc.input, defs),
      entry |-> Entry(i, actual = tc.expectedOutput,
                      IF actual \in {PyNone, ""} THEN "None" ELSE actual,
                      tc.expectedOutput)]

\* ---- C++
\* if (input.find('[') != npos && input.find(',') != npos) ... else if
\* (input.find('"') != npos) ... else ...
CppShape(str) ==
  IF Includes(str, LBr) /\ Includes(str, Comma) THEN "array"
  ELSE IF Includes(str, Quote) THEN "string"
  ELSE "number"

\* Position of the comma found by input.find(',', end_bracket); 0 for npos.
CppCommaPos(str) ==
  IF IndexOf(str, RBr) = 0 THEN 0 ELSE IndexFrom(str, Comma, IndexOf(str, RBr))

\* stoi throws on an item of the array, on the target or on the number.
CppParseThrows(str) ==
  CASE CppShape(str) = "array" ->
         \/ \E j \in DOMAIN GetlineItems(CppArrayStr(str)) :
              ~IntPrefix(GetlineItems(CppArrayStr(str))[j])
         \/ /\ CppCommaPos(str) # 0
            /\ ~IntPrefix(SubSeq(str, CppCommaPos(str) + 1, Len(str)))
    [] CppShape(str) = "string" -> FALSE
    [] OTHER -> ~IntPrefix(str)

\* The function main() calls; it calls them by name, without a test.
CppCallee(str) ==
  CASE CppShape(str) = "array" -> IF CppCommaPos(str) # 0 THEN "twoSum" ELSE "maxSubArray"
    [] CppShape(str) = "string" -> "isValid"
    [] OTHER -> "climbStairs"

\* g++ accepts the artifact only when every function main() names is declared.
CppCompiles(defs) == EntryPoints \subseteq defs

\* The body of the for loop for test case i.  The catch (...) around a call
\* leaves functionCalled false.
CppTest(i, tc, defs, b) ==
  LET actual ==
        IF CppParseThrows(tc.input) THEN CppRuntimeError
        ELSE IF b \in Throws THEN NotFound
        ELSE b
  IN [abort |-> FALSE, shape |-> CppShape(tc.input),
      called |-> IF CppParseThrows(tc.input) THEN "none" ELSE CppCallee(tc.input),
      entry |-> Entry(i, actual = tc.expectedOutput, actual, tc.expectedOutput)]

HarnessTest(lang, i, tc, defs, b) ==
  CASE lang = "javascript" -> JsTest(i, tc, defs, b)
    [] lang = "python" -> PyTest(i, tc, defs, b)
    [] OTHER -> CppTest(i, tc, defs, b)

\* ------------------------------------------------- one run of an artifact
\* The inputs tried: the two-argument form "[9,9],9", a bare list "[9,9]", a
\* one-element list "[9]", a quoted string, an integer, other text, a list
\* without its closing bracket, a string without its closing quote, a quoted
\* string that holds brackets and a comma.
TestInputs ==
  {<<LBr, Num, Comma, Num, RBr, Comma, Num>>,
   <<LBr, Num, Comma, Num, RBr>>,
   <<LBr, Num, RBr>>,
   <<Quote, Text, Quote>>,
   <<Num>>,
   <<Text>>,
   <<LBr, Num, Comma, Num>>,
   <<Quote, Text>>,
   <<Quote, LBr, Comma, RBr, Quote>>}
ExpectedOutputs == {"v1", "None"}
TestCases == [input : TestInputs, expectedOutput : ExpectedOutputs]
\* The test cases of a question; the lists tried expect one output throughout.
TestLists ==
  {t \in UNION {[1..n -> TestCases] : n \in 1..MaxTests} :
     \A j \in DOMAIN t : t[j].expectedOutput = t[1].expectedOutput}

\* What the user's functions do on test case i (0-based): answer as expected,
\* answer something else, or throw on the first test case and answer as
\* expected afterwards.
UserPolicies == {"right", "wrong", "errorFirst", "otherFirst"}
Behaviour(policy, i) ==
  CASE policy = "right" -> "v1"
    [] policy = "wrong" -> "v2"
    [] policy = "errorFirst" -> IF i = 0 THEN "throwError" ELSE "v1"
    [] OTHER -> IF i = 0 THEN "throwOther" ELSE "v1"

\* The user code defines no entry point, one of them, or all of them.
DefSets == {{}, EntryPoints} \cup {{e} : e \in EntryPoints}

HarnessRuns ==
  {[NoHarness EXCEPT !.lang = l, !.defs = d, !.policy = p, !.tests = t,
                     !.phase = "start"] :
     l \in Langs, d \in DefSets, p \in UserPolicies, t \in TestLists}

HarnessInit ==
  JudgeInit /\ harness \in HarnessRuns /\ page = NoPage /\ mongo = NoMongo

judge == <<clock, fs, pc, req, code, tests, paths, proc, out, ret, resp, hist>>

\* The artifact is built: g++ compiles it; node and python load the user code.
Build ==
  /\ harness.phase = "start"
  /\ harness' = [harness EXCEPT !.phase =
       IF harness.lang = "cpp" /\ ~CppCompiles(harness.defs)
         THEN "notCompiled" ELSE "tests"]
  /\ UNCHANGED <<mongo, page, judge>>

\* One turn of the loop over the test cases.  An exception that escapes the
\* loop ends the process, with the exit status the exception asks for.
RunTest ==
  /\ harness.phase = "tests"
  /\ harness.i < Len(harness.tests)
  /\ LET r == HarnessTest(harness.lang, harness.i, harness.tests[harness.i + 1],
                          harness.defs, Behaviour(harness.policy, harness.i))
     IN IF r.abort
          THEN \E e \in {"zero", "nonzero"} :
                 harness' = [harness EXCEPT !.phase = "aborted", !.exit = e,
                                            !.shapes = Append(@, r.shape),
                                            !.calls = Append(@, r.called)]
          ELSE harness' = [harness EXCEPT !.results = Append(@, r.entry),
                                          !.shapes = Append(@, r.shape),
                                          !.calls = Append(@, r.called),
                                          !.i = @ + 1]
  /\ UNCHANGED <<mongo, page, judge>>

\* After the loop: the result line is printed and the process exits 0.
Emit ==
  /\ harness.phase = "tests"
  /\ harness.i = Len(harness.tests)
  /\ harness' = [harness EXCEPT !.phase = "emitted", !.exit = "zero"]
  /\ UNCHANGED <<mongo, page, judge>>

\* The JudgeResult the executor returns for the run, file system and toolchain
\* not failing.
RunResult(h) ==
  LET n == Len(h.tests)
  IN CASE h.phase = "notCompiled" ->
            ExecutionError(n, "Execution error: Error: Compilation failed: diagnostics")
       [] h.phase = "aborted" /\ h.exit = "nonzero" ->
            ExecutionError(n, "Execution error: Error: stderr")
       [] h.phase = "aborted" -> parseJudgeOutput(<<>>, n)
       [] OTHER -> parseJudgeOutput(<<TokJ, TokP(JArr(h.results)), TokNL>>, n)

Return ==
  /\ harness.phase \in {"notCompiled", "aborted", "emitted"}
  /\ harness' = [harness EXCEPT !.phase = "returned", !.ret = RunResult(harness)]
  /\ UNCHANGED <<mongo, page, judge>>

HarnessNext == Build \/ RunTest \/ Emit \/ Return

HarnessSpec == HarnessInit /\ [][HarnessNext]_vars

\* ------------------------------------------------------ the practice page
\* The questions the list shows, and question.testCases.length of each.
Questions == {"q1", "q2"}
TestCount(q) == IF q = "q1" THEN 1 ELSE MaxTests

\* The options of the language select.
PageLanguages == Langs \cup {"java"}

\* fetch rejects: no HTTP response arrives.
NetworkError == 0

\* What comes back for POST /api/judge/submit: 501 for java; otherwise a failure
\* (500, or none at all), or the 200 response, whose results are empty when the
\* executor failed and hold one entry per test case when the harness line was
\* parsed.
PageResponses(q, lang) ==
  IF lang = "java"
    THEN {[http |-> h, results |-> <<>>] : h \in {501, NetworkError}}
    ELSE {[http |-> h, results |-> <<>>] : h \in {200, 500, NetworkError}}
         \cup {[http |-> 200, results |-> [i \in 1..TestCount(q) |-> Res(i - 1, b[i])]] :
                 b \in [1..TestCount(q) -> BOOLEAN]}

\* result.results.forEach(r => newResults[r.testCaseIndex] = r.passed ? 'passed' : 'failed')
NewResults(results) ==
  [i \in {results[j].testCaseIndex : j \in DOMAIN results} |->
     LET last == CHOOSE j \in DOMAIN results :
                   /\ results[j].testCaseIndex = i
                   /\ \A k \in DOMAIN results : results[k].testCaseIndex = i => k <= j
     IN IF results[last].passed THEN "passed" ELSE "failed"]

\* getTestCaseStyle, getTestCaseStatusIcon: the status of test case index as shown.
StatusShown(index) ==
  IF index \in DOMAIN page.testResults THEN page.testResults[index] ELSE "pending"

\* A question card of the list is clicked.
SelectQuestion(q) ==
  /\ page.selected = NoQuestion
  /\ page' = [page EXCEPT !.selected = q, !.testResults = NoStatuses,
                          !.from = NoQuestion, !.last = "selected"]
  /\ UNCHANGED <<mongo, judge, harness>>

\* The back button of the question view.
Back ==
  /\ page.selected # NoQuestion
  /\ page' = [page EXCEPT !.selected = NoQuestion, !.testResults = NoStatuses,
                          !.from = NoQuestion, !.last = "back"]
  /\ UNCHANGED <<mongo, judge, harness>>

\* The language select of the question view.
SetLanguage(lang) ==
  /\ page.selected # NoQuestion
  /\ page.language # lang
  /\ page' = [page EXCEPT !.language = lang, !.last = "language"]
  /\ UNCHANGED <<mongo, judge, harness>>

\* runTestCases up to its first await: without code of the user's an alert and
\* nothing else; otherwise the statuses are reset and the request is sent.
RunTestCases ==
  /\ page.selected # NoQuestion
  /\ page.runs < MaxRuns
  /\ \E written \in BOOLEAN :
       IF ~written
         THEN page' = [page EXCEPT !.last = "write some code"]
         ELSE page' = [page EXCEPT
                         !.testResults = NoStatuses,
                         !.from = NoQuestion,
                         !.runs = @ + 1,
                         !.flights = @ \cup {[id |-> page.runs + 1,
                                              question |-> page.selected,
                                              language |-> page.language]},
                         !.last = "sent"]
  /\ UNCHANGED <<mongo, judge, harness>>

\* runTestCases from the fetch on: a response that is not ok, or no response,
\* ends in the catch block; the results of a 200 response become the statuses.
RunResponse ==
  /\ \E f \in page.flights : \E r \in PageResponses(f.question, f.language) :
       IF r.http = 200
         THEN page' = [page EXCEPT !.flights = @ \ {f},
                                   !.testResults = NewResults(r.results),
                                   !.from = f.question,
                                   !.last = "results"]
         ELSE page' = [page EXCEPT !.flights = @ \ {f}, !.last = "error"]
  /\ UNCHANGED <<mongo, judge, harness>>

PageNext ==
  \/ \E q \in Questions : SelectQuestion(q)
  \/ Back
  \/ \E lang \in PageLanguages : SetLanguage(lang)
  \/ RunTestCases
  \/ RunResponse

PageSpec == Init /\ [][PageNext]_vars

\* ------------------------------------------------------------ database.ts
\* The MongoClients constructed so far.
Made == {c \in 1..MaxClients : mongo.clients[c] # "none"}

\* No call is between its await and its continuation.
Quiet == \A p \in Callers : mongo.call[p].pc = "idle"

\* connectToDatabase up to its await: the cached db is returned at once;
\* otherwise client = new MongoClient(MONGODB_URI) and client.connect() starts.
ConnectCall(p) ==
  /\ mongo.call[p].pc = "idle"
  /\ IF mongo.db # NoDb
       THEN mongo' = [mongo EXCEPT !.call[p] =
                        [pc |-> "idle", awaits |-> NoClient, got |-> mongo.db, ret |-> "db"]]
       ELSE /\ Cardinality(Made) < MaxClients
            /\ LET c == Cardinality(Made) + 1
               IN mongo' = [mongo EXCEPT
                              !.client = c,
                              !.clients[c] = "created",
                              !.call[p] = [pc |-> "connect", awaits |-> c,
                                           got |-> NoDb, ret |-> "none"]]
  /\ UNCHANGED <<judge, harness, page>>

\* client.connect() settles and connectToDatabase continues: on success
\* db = client.db(DB_NAME), with the client the module variable holds by then
\* (a TypeError when it is null); every error is logged and thrown again.
ConnectSettle(p) ==
  /\ mongo.call[p].pc = "connect"
  /\ \E ok \in BOOLEAN :
       LET c == mongo.call[p].awaits
           status == IF mongo.clients[c] # "created" THEN mongo.clients[c]
                     ELSE IF ok THEN "connected" ELSE "failed"
           made == [client |-> mongo.client, serial |-> mongo.dbs + 1]
       IN IF ok /\ mongo.client # NoClient
            THEN mongo' = [mongo EXCEPT
                             !.clients[c] = status,
                             !.db = made,
                             !.dbs = @ + 1,
                             !.call[p] = [pc |-> "idle", awaits |-> NoClient,
                                          got |-> made, ret |-> "db"]]
            ELSE mongo' = [mongo EXCEPT
                             !.clients[c] = status,
                             !.call[p] = [pc |-> "idle", awaits |-> NoClient,
                                          got |-> NoDb, ret |-> "error"]]
  /\ UNCHANGED <<judge, harness, page>>

\* client.close() settles, with `db = null` left out.
CloseSettleKeepsDb(p) ==
  /\ mongo.call[p].pc = "close"
  /\ \E ok \in BOOLEAN :
       IF ok
         THEN mongo' = [mongo EXCEPT
                          !.clients[mongo.call[p].awaits] = "closed",
                          !.client = NoClient,
                          !.call[p] = [pc |-> "idle", awaits |-> NoClient,
                                       got |-> NoDb, ret |-> "closed"]]
         ELSE mongo' = [mongo EXCEPT
                          !.call[p] = [pc |-> "idle", awaits |-> NoClient,
                                       got |-> NoDb, ret |-> "error"]]
  /\ UNCHANGED <<judge, harness, page>>

\* closeDatabaseConnection up to its await: nothing without a client;
\* otherwise client.close() starts.
CloseCall(p) ==
  /\ mongo.call[p].pc = "idle"
  /\ IF mongo.client = NoClient
       THEN mongo' = [mongo EXCEPT !.call[p] =
                        [pc |-> "idle", awaits |-> NoClient, got |-> NoDb, ret |-> "noop"]]
       ELSE mongo' = [mongo EXCEPT
                        !.closes = 1,
                        !.call[p] = [pc |-> "close", awaits |-> mongo.client,
                                     got |-> NoDb, ret |-> "none"]]
  /\ UNCHANGED <<judge, harness, page>>

\* client.close() settles: client = null; db = null, or the rejection leaves
\* the function.
CloseSettle(p) ==
  /\ mongo.call[p].pc = "close"
  /\ \E ok \in BOOLEAN :
       IF ok
         THEN mongo' = [mongo EXCEPT
                          !.clients[mongo.call[p].awaits] = "closed",
                          !.client = NoClient,
                          !.db = NoDb,
                          !.call[p] = [pc |-> "idle", awaits |-> NoClient,
                                       got |-> NoDb, ret |-> "closed"]]
         ELSE mongo' = [mongo EXCEPT
                          !.call[p] = [pc |-> "idle", awaits |-> NoClient,
                                       got |-> NoDb, ret |-> "error"]]
  /\ UNCHANGED <<judge, harness, page>>

\* Calls from request handlers that run concurrently.
DbNext ==
  \E p \in Callers :
    \/ ConnectCall(p)
    \/ ConnectSettle(p)
    \/ CloseCall(p)
    \/ CloseSettle(p)

DbSpec == Init /\ [][DbNext]_vars

\* Calls made one after the other: a call starts when no other is in progress.
SeqDbNext ==
  \E p \in Callers :
    \/ Quiet /\ ConnectCall(p)
    \/ ConnectSettle(p)
    \/ Quiet /\ CloseCall(p)
    \/ CloseSettle(p)

SeqDbSpec == Init /\ [][SeqDbNext]_vars

\* ------------------------------------------------------------------ claims
\* The executor was called for s and has returned its JudgeResult.
Returned(s) == pc[s] \in {"returned", "responded"} /\ hist[s].calls > 0

\* C1: every JudgeResult an executor returns has
\* 0 <= passedTests <= totalTests and totalTests = testCases.length.
C1_PassedWithinTotal ==
  \A s \in Subs :
    Returned(s) =>
      /\ 0 <= ret[s].passedTests
      /\ ret[s].passedTests <= ret[s].totalTests
      /\ ret[s].totalTests = tests[s]

\* C2: a JudgeResult with success = true has exactly totalTests results, and the
\* result at position i has testCaseIndex = i.
C2_ResultsIndexed ==
  \A s \in Subs :
    (Returned(s) /\ ret[s].success) =>
      /\ Len(ret[s].results) = ret[s].totalTests
      /\ \A i \in DOMAIN ret[s].results :
           ret[s].results[i].k = "res" /\ ret[s].results[i].testCaseIndex = i - 1

\* C3: once an invocation has returned, no file it created is left in the temp
\* directory.
C3_TempDirClean ==
  \A s \in Subs : Returned(s) => \A p \in Paths : fs[p].by # s

\* The invocation has chosen its paths and has not returned yet.
InProgress(s) ==
  pc[s] \in {"writing", "compileSpawn", "compiling", "runSpawn", "running",
             "unlinkSrc", "unlinkExe"}
PathsOf(s) == {paths[s].src} \cup (IF IsCpp(s) THEN {paths[s].exe} ELSE {})

\* C4: two invocations in progress at the same time use disjoint paths.
C4_PathsDisjoint ==
  \A s, t \in Subs :
    (s # t /\ InProgress(s) /\ InProgress(t)) => PathsOf(s) \cap PathsOf(t) = {}

\* The JudgeResult of submission s when nothing else touches the temp directory
\* and the file system and the toolchain do not fail.
SoloResult(s) ==
  LET p == code[s]
      n == tests[s]
  IN IF IsCpp(s) /\ p.compile = "error"
       THEN ExecutionError(n, "Execution error: Error: Compilation failed: diagnostics")
     ELSE IF IsCpp(s) /\ p.compile = "slow"
       THEN ExecutionError(n, "Execution error: Error: Compilation failed: Process exited with code null")
     ELSE IF p.end = "crash"
       THEN ExecutionError(n, CrashError(p.stderr))
     ELSE IF p.end \in Hangs /\ p.onTerm = "die"
       THEN ExecutionError(n, "Execution error: Error: Process exited with code null")
     ELSE IF p.end \in Hangs /\ p.onTerm = "ignore"
       THEN NoResult
     ELSE parseJudgeOutput(Stdout(p, n), n)

\* C5: the process of a submission runs the artifact generated from its own code
\* and test cases, and (file system and toolchain not failing) the submission
\* gets the JudgeResult it would get alone.
C5_Isolated ==
  \A s \in Subs :
    Returned(s) =>
      /\ hist[s].ran \in {NoSub, s}
      /\ ~hist[s].env => ret[s] = SoloResult(s)

\* C6: when the process does not exit on its own, the pipeline still returns, with
\* a JudgeResult that has success = false and no results.
C6_HangReturns ==
  \A s \in Subs :
    (pc[s] = "running" /\ Running(s).end \in Hangs)
      ~> (Returned(s) /\ ~ret[s].success /\ ret[s].results = <<>>)

\* The runner has reported the outcome of the run to the executor.
Reported(s) == pc[s] \in {"unlinkSrc", "unlinkExe", "returned", "responded"}

\* C7: once the timeout has elapsed and the runner has reported, neither the
\* spawned process nor a child it started is running.
C7_NothingLeftRunning ==
  \A s \in Subs :
    (proc[s].timedOut /\ Reported(s)) => (~proc[s].alive /\ ~proc[s].child)

\* C8: every failure inside a judge call ends in a returned JudgeResult with
\* success = false and overallError set; the executor never rejects.
C8_FailuresConverted ==
  \A s \in Subs :
    /\ pc[s] # "rejected"
    /\ (Returned(s) /\ hist[s].fails # {}) =>
         (~ret[s].success /\ ret[s].overallError # NoError)

\* C9: a returned JudgeResult with success = false has no results, passedTests = 0
\* and an overallError.
C9_FailureShape ==
  \A s \in Subs :
    (Returned(s) /\ ~ret[s].success) =>
      /\ ret[s].results = <<>>
      /\ ret[s].passedTests = 0
      /\ ret[s].overallError # NoError

C9_Witness ==
  \E s \in Subs :
    /\ pc[s] = "returned" /\ ~ret[s].success
    /\ "parse" \in hist[s].fails
    /\ MatchIndex(out[s]) # 0

\* C10: the response status is 'Accepted' exactly when passedTests = totalTests
\* and success = true.
C10_AcceptedIff ==
  \A s \in Subs :
    (pc[s] = "responded" /\ resp[s].http = 200) =>
      (resp[s].status = "Accepted"
         <=> (ret[s].passedTests = ret[s].totalTests /\ ret[s].success))

C10_Witness ==
  \E s \in Subs :
    /\ pc[s] = "responded" /\ resp[s].http = 200
    /\ ~ret[s].success /\ resp[s].status = "Wrong Answer"

\* The route answered s with the JudgeResult of its run.
Answered(s) == pc[s] = "responded" /\ resp[s].http = 200 /\ hist[s].calls > 0

\* C11: a submission whose run failed (success = false, no test run) gets a
\* response status, and a message on the page, different from those of a
\* submission that ran and failed tests.
C11_FailureVerdictDistinct ==
  \A s, t \in Subs :
    (/\ Answered(s) /\ ~ret[s].success
     /\ Answered(t) /\ ret[t].success /\ ret[t].passedTests < ret[t].totalTests) =>
      /\ resp[s].status # resp[t].status
      /\ ClientAlert(resp[s]) # ClientAlert(resp[t])

\* C12: whatever the user code writes to stdout, the results of a successful
\* JudgeResult are the ones the harness emitted on its own result line.
C12_ResultsFromHarness ==
  \A s \in Subs :
    (Returned(s) /\ ret[s].success /\ hist[s].ran = s) =>
      ret[s].results = HarnessResults(code[s], tests[s])

\* executeCpp got as far as compiling, and g++ could not be launched, exited
\* non-zero or was killed by its timeout.
CompileFailed(s) ==
  /\ Returned(s) /\ IsCpp(s)
  /\ "write" \notin hist[s].fails
  /\ proc[s].stage = "none" \/ code[s].compile # "ok"

C14_OnlyExitZeroParsed ==
  \A s \in Subs :
    /\ out[s] # <<>> => (proc[s].stage = "run" /\ proc[s].exit = "zero")
    /\ (Returned(s) /\ proc[s].stage = "run"
          /\ (proc[s].exit = "nonzero" \/ proc[s].timedOut)) =>
         (~ret[s].success /\ ret[s].results = <<>>)

\* The decoded text is a list whose entries are all result objects.
IsResultList(v) == v.k = "array" /\ \A j \in DOMAIN v.items : v.items[j].k = "res"

\* C15: for an output without a result line, or whose text after the prefix does
\* not decode to a list of results, parseJudgeOutput returns success = false,
\* passedTests = 0 and no results.
C15_ParseAllOrNothing ==
  \A s \in Subs :
    Reported(s) =>
      LET r == parseJudgeOutput(out[s], tests[s])
          i == MatchIndex(out[s])
      IN (i = 0 \/ ~IsResultList(JSONparse(Capture(out[s], i)))) =>
           (~r.success /\ r.passedTests = 0 /\ r.results = <<>>)

\* The request names its fields, a question of the catalog that has test cases,
\* and a language with an executor.
Executable(r) ==
  r.fields /\ r.question = "found" /\ r.nTests >= 1 /\ r.language \in Langs

\* C16: judgeSubmission calls the executor at most once per request, and only for
\* a request with its fields present, an existing question with at least one
\* test case and language javascript, python or cpp; any other request is
\* answered with an error and runs no code.
C16_ExecutorGuarded ==
  \A s \in Subs :
    /\ hist[s].calls <= 1
    /\ hist[s].calls = 1 => Executable(req[s])
    /\ (pc[s] # "idle" /\ ~Executable(req[s])) =>
         /\ pc[s] = "responded" /\ resp[s].http \in {400, 404, 500, 501}
         /\ resp[s].error # NoError
         /\ hist[s].calls = 0 /\ hist[s].spawns = 0 /\ proc[s] = NoProc
         /\ \A p \in Paths : fs[p].by # s

C16_Witness ==
  \E s \in Subs :
    /\ pc[s] = "responded" /\ hist[s].calls = 0
    /\ req[s].fields /\ req[s].question = "found" /\ req[s].language = "other"
    /\ resp[s].http = 400

\* C17: a java request is answered 501, a status no other outcome of
\* judgeSubmission has (a failed run is answered 200, an unknown language 400,
\* an internal error 500), and no process is spawned for it.
C17_JavaNotImplemented ==
  \A s \in Subs :
    pc[s] = "responded" =>
      /\ resp[s].http = 501 <=>
           (/\ req[s].fields /\ req[s].question = "found" /\ req[s].nTests >= 1
            /\ req[s].language = "java")
      /\ resp[s].http = 501 =>
           (hist[s].calls = 0 /\ hist[s].spawns = 0 /\ proc[s] = NoProc)
      /\ (hist[s].calls > 0 /\ ~ret[s].success) => resp[s].http \in {200, 500}

C17_Witness ==
  \E s \in Subs :
    pc[s] = "responded" /\ req[s].language = "java" /\ resp[s].http = 501

\* C18: in each language harness an exception raised while parsing the input of
\* a test case or while calling the user's function does not end the loop: the
\* later test cases are evaluated, and the harness emits one entry per test
\* case, in input order.
C18_ExceptionsContained ==
  /\ harness.phase # "aborted"
  /\ harness.phase = "emitted" =>
       /\ Len(harness.results) = Len(harness.tests)
       /\ \A j \in DOMAIN harness.results : harness.results[j].testCaseIndex = j - 1

\* The entry points that serve an input of the given shape.
Needed(str) ==
  CASE Shape(str) = "array" -> {"twoSum", "maxSubArray"}
    [] Shape(str) = "string" -> {"isValid"}
    [] OTHER -> {"climbStairs"}

\* The user code defines no entry point for test case j (1-based) of the run.
Undefined(j) == Needed(harness.tests[j].input) \cap harness.defs = {}

\* C19: in every language, when the user code does not define the entry point a
\* test case needs, the submission still runs to completion with
\* success = true, and that test case is reported failed.
C19_MissingEntryPointFailsTest ==
  (harness.phase = "returned" /\ \E j \in DOMAIN harness.tests : Undefined(j)) =>
    /\ harness.ret.success
    /\ Len(harness.ret.results) = Len(harness.tests)
    /\ \A j \in DOMAIN harness.tests : Undefined(j) => ~harness.ret.results[j].passed

\* C20: in the JavaScript and Python harnesses a test case whose entry point is
\* not defined is reported with actualOutput = 'ERROR: Function not found or not
\* implemented' and passed = false.
C20_NotFoundSentinel ==
  harness.lang \in {"javascript", "python"} =>
    \A j \in DOMAIN harness.results :
      Undefined(j) =>
        /\ harness.results[j].actualOutput = NotFound
        /\ ~harness.results[j].passed

\* C21: in every result entry a harness emits, passed is true exactly when the
\* reported actualOutput equals the reported expectedOutput.
C21_PassedIffEqual ==
  \A j \in DOMAIN harness.results :
    harness.results[j].passed
      <=> (harness.results[j].actualOutput = harness.results[j].expectedOutput)

BareList(str) == IsIntList(str) /\ Includes(str, Comma)

\* C23: for a bare list of two or more integers, a harness whose user code
\* defines the single-array entry point and not the two-argument one calls the
\* single-array entry point; the missing target is not an error.
C23_BareListCallsSingleArray ==
  (/\ harness.phase = "returned"
   /\ "maxSubArray" \in harness.defs /\ "twoSum" \notin harness.defs) =>
    \A j \in DOMAIN harness.tests :
      BareList(harness.tests[j].input) =>
        /\ j \in DOMAIN harness.calls
        /\ harness.calls[j] = "maxSubArray"

\* C24: within one submission the stages follow each other: the source file is
\* written before g++ or the interpreter is started, g++ has closed with exit
\* code 0 before the executable is run, and the run has closed before its
\* output is parsed.
C24_StagesInOrder ==
  \A s \in Subs :
    /\ pc[s] \in {"compileSpawn", "compiling", "runSpawn", "running"} =>
         (fs[paths[s].src] # NoFile /\ "write" \notin hist[s].fails)
    /\ proc[s].stage # "none" => "write" \notin hist[s].fails
    /\ pc[s] = "compiling" =>
         (proc[s].stage = "compile" /\ proc[s].alive /\ hist[s].spawns = 0)
    /\ (IsCpp(s) /\ pc[s] = "runSpawn") =>
         (/\ proc[s].stage = "compile" /\ ~proc[s].alive /\ proc[s].exit = "zero"
          /\ fs[paths[s].exe] # NoFile)
    /\ (IsCpp(s) /\ proc[s].stage = "run") => hist[s].fails \cap {"compile"} = {}
    /\ pc[s] = "running" => (proc[s].stage = "run" /\ out[s] = <<>>)
    /\ pc[s] \in {"unlinkSrc", "unlinkExe"} =>
         (proc[s].stage = "run" /\ ~proc[s].alive /\ proc[s].exit = "zero")
    /\ (Returned(s) /\ ("parse" \in hist[s].fails \/ ret[s].success)) =>
         (proc[s].stage = "run" /\ ~proc[s].alive /\ proc[s].exit = "zero")

C24_Witness ==
  \E s \in Subs :
    /\ Returned(s) /\ IsCpp(s) /\ ret[s].success
    /\ proc[s].stage = "run" /\ proc[s].exit = "zero"
    /\ fs[paths[s].src] = NoFile

\* C25: a failure to launch the interpreter, the compiler or the executable is
\* reported so that the caller can tell it from a non-zero exit and from a
\* compilation error: the JudgeResult of a launch failure differs from the
\* JudgeResult of every run that failed in one of the other two ways.
C25_SpawnFailureDistinct ==
  \A s, t \in Subs :
    (/\ Returned(s) /\ hist[s].fails = {"spawn"}
     /\ Returned(t) /\ hist[t].fails \in {{"exit"}, {"compile"}}
     /\ tests[s] = tests[t]) =>
      ret[s] # ret[t]


\* C26: every response that follows a judge run carries
\* accuracy = round(100 * passedTests / totalTests), an integer from 0 to 100.
C26_AccuracyRounded ==
  \A s \in Subs :
    Answered(s) =>
      /\ resp[s].accuracy = Accuracy(resp[s].passedTests, resp[s].totalTests)
      /\ resp[s].accuracy \in 0..100


\* C27: when deleting the generated source file fails after the process exited
\* with code 0, the invocation returns success false with no results and the
\* captured output is not parsed.
C27_UnlinkFailureNotParsed ==
  \A s \in Subs :
    (Returned(s) /\ "unlink" \in hist[s].fails) =>
      /\ ret[s] = ExecutionError(tests[s], "Execution error: Error: unlink")
      /\ "parse" \notin hist[s].fails

\* The file was removed by the other invocation, and the output left unparsed
\* held a well-formed result line.
C27_Witness ==
  \E s \in Subs :
    /\ Returned(s) /\ hist[s].fails = {"unlink"} /\ ~hist[s].env
    /\ proc[s].exit = "zero"
    /\ parseJudgeOutput(out[s], tests[s]).success


\* C28: on every path judgeSubmission sends one HTTP response, and its status
\* is 200, 400, 404, 500 or 501: a request that was received is answered.
C28_OneResponse ==
  \A s \in Subs :
    (pc[s] # "idle") ~>
      (pc[s] = "responded" /\ resp[s].http \in {200, 400, 404, 500, 501})


\* C29: the statuses the practice page shows come from a judge run of the
\* question that is selected: a response that arrives after the user went
\* back or selected another question sets no status on the question now shown.
C29_StatusesOfSelected ==
  (/\ page.selected # NoQuestion
   /\ \E i \in 0..(MaxTests - 1) : StatusShown(i) # "pending") =>
    page.from = page.selected

\* C30: when a run request has failed (a response that is not ok, or none),
\* every test case is pending: no status of an earlier run is left.
C30_FailedRunAllPending ==
  page.last = "error" => \A i \in 0..(MaxTests - 1) : StatusShown(i) = "pending"


\* The Dbs the callers of connectToDatabase hold.
Handles == {mongo.call[p].got : p \in Callers} \ {NoDb}

\* C31: as long as closeDatabaseConnection has not been called, concurrent
\* connectToDatabase calls create and connect at most one MongoClient, every
\* caller receives the same Db, and that Db comes from a client whose
\* connect() has completed.
C31_OneClientOneDb ==
  mongo.closes = 0 =>
    /\ Cardinality({c \in Made : mongo.clients[c] \in {"created", "connected"}}) <= 1
    /\ Cardinality(Handles) <= 1
    /\ \A h \in Handles : mongo.clients[h.client] = "connected"


\* C32: with calls made one after the other, connectToDatabase while connected
\* creates no client and returns the cached Db; when closeDatabaseConnection
\* has returned client and db are both null, and the connectToDatabase that
\* follows constructs a new client; db is never non-null while client is null.
C32_SequentialLifecycle ==
  /\ [](mongo.db # NoDb => mongo.client # NoClient)
  /\ [][\A p \in Callers :
          /\ (mongo.db # NoDb /\ ConnectCall(p)) =>
               /\ mongo'.clients = mongo.clients
               /\ mongo'.client = mongo.client
               /\ mongo'.db = mongo.db
               /\ mongo'.call[p].got = mongo.db
          /\ (CloseSettle(p) /\ mongo'.call[p].ret = "closed") =>
               (mongo'.client = NoClient /\ mongo'.db = NoDb)
          /\ (mongo.db = NoDb /\ ConnectCall(p)) =>
               /\ mongo'.client \notin Made
               /\ mongo'.clients[mongo'.client] = "created"
               /\ mongo'.call[p].pc = "connect"]_vars

\* A connection was closed and a new one opened, and the second caller got the
\* Db the first one made: it came from the cache.
C32_Witness ==
  /\ \E c \in Made : mongo.clients[c] = "closed"
  /\ mongo.db # NoDb
  /\ mongo.clients[mongo.db.client] = "connected"
  /\ mongo.client = mongo.db.client
  /\ \A p \in Callers : mongo.call[p].got = mongo.db /\ mongo.call[p].ret = "db"

====
